---- MODULE Spec2Model ----
(***************************************************************************)
(* Model of the amortization engine of calculadora.py: rate conversion,    *)
(* schedule generation (French and German systems), the penalty, the       *)
(* application of one partial prepayment (modes 'cuota' and 'plazo'), the  *)
(* recurring prepayments and the summary.                                  *)
(*                                                                         *)
(* Numbers.  The engine computes on binary floating point without any      *)
(* rounding step of its own.  The model computes the same expressions on   *)
(* exact rationals <<numerator, denominator>> (denominator > 0, lowest     *)
(* terms), so equalities of the model are equalities of the real-number    *)
(* values the code approximates; floating-point drift is not represented.  *)
(***************************************************************************)
EXTENDS Integers, Sequences, FiniteSets, TLC

(***************************************************************************)
(* Exact rational arithmetic                                               *)
(***************************************************************************)
Abs(n) == IF n < 0 THEN 0 - n ELSE n

RECURSIVE GCD(_, _)
GCD(a, b) == IF b = 0 THEN a ELSE GCD(b, a % b)

\* n/d in lowest terms with a positive denominator (d # 0)
Q(n, d) ==
    LET s == IF d < 0 THEN 0 - 1 ELSE 1
        g == GCD(Abs(n), Abs(d))
    IN  IF n = 0 THEN <<0, 1>> ELSE <<(s * n) \div g, Abs(d) \div g>>

Z(n) == <<n, 1>>
Cero == Z(0)
Uno == Z(1)
Cien == Z(100)

QAdd(a, b) == Q(a[1] * b[2] + b[1] * a[2], a[2] * b[2])
QSub(a, b) == Q(a[1] * b[2] - b[1] * a[2], a[2] * b[2])
QMul(a, b) ==
    LET x == Q(a[1], b[2])
        y == Q(b[1], a[2])
    IN  Q(x[1] * y[1], x[2] * y[2])
\* defined for b # 0 only
QDiv(a, b) == QMul(a, Q(b[2], b[1]))
QLt(a, b) == a[1] * b[2] < b[1] * a[2]
QLe(a, b) == a[1] * b[2] <= b[1] * a[2]
QNeg(a) == <<0 - a[1], a[2]>>
QAbs(a) == <<Abs(a[1]), a[2]>>

\* x ** n for n >= 0, by squaring the power of half the exponent
RECURSIVE QPow(_, _)
QPow(x, n) ==
    IF n = 0 THEN Uno
    ELSE CHOOSE y \in {IF n % 2 = 0 THEN QMul(h, h) ELSE QMul(x, QMul(h, h)) :
                       h \in {QPow(x, n \div 2)}} : TRUE

\* The element of a set of one element.  Unico({e(v) : v \in {x}}) is e on the
\* value of x, which is computed once, before e uses it.
Unico(S) == CHOOSE y \in S : TRUE

(***************************************************************************)
(* calcular_tipo_mensual: (1 + tae/100) ** (1/12) - 1.  The twelfth root   *)
(* is taken among the rationals of Raices; the TAE inputs of the model are *)
(* the rates whose monthly rate is one of them.                            *)
(***************************************************************************)
Raices == {Q(1, 2), Z(1), Z(2)}

\* Variant: the twelfth root itself, without the "- 1"
calcular_tipo_mensual_sin_restar(tae) ==
    LET x == QAdd(Uno, QDiv(tae, Cien))
    IN  CHOOSE y \in Raices : QPow(y, 12) = x

calcular_tipo_mensual(tae) ==
    LET x == QAdd(Uno, QDiv(tae, Cien))
    IN  QSub(CHOOSE y \in Raices : QPow(y, 12) = x, Uno)

\* Variant: the installment of a loan without interest, whatever the rate
calcular_cuota_sin_interes(principal, tipo_mensual, meses) ==
    QDiv(principal, Z(meses))

(***************************************************************************)
(* calcular_cuota_francesa.  Defined for meses # 0; with meses = 0 both    *)
(* branches divide by zero.                                                *)
(***************************************************************************)
calcular_cuota_francesa(principal, tipo_mensual, meses) ==
    IF tipo_mensual = Cero
    THEN QDiv(principal, Z(meses))
    ELSE LET factor == QPow(QAdd(Uno, tipo_mensual), meses)
         IN  QDiv(QMul(principal, QMul(tipo_mensual, factor)), QSub(factor, Uno))

(***************************************************************************)
(* Schedule rows                                                           *)
(***************************************************************************)
Fila(anio, mes, cuota, interes, amortizacion, capital, anticipada, comision) ==
    [anio |-> anio, mes |-> mes, cuota |-> cuota, interes |-> interes,
     amortizacion |-> amortizacion, capital_pendiente |-> capital,
     amortizacion_anticipada |-> anticipada, comision |-> comision]

FilaInicial(principal) == Fila(0, 0, Cero, Cero, Cero, principal, Cero, Cero)

AnioDe(i) == ((i - 1) \div 12) + 1
\* Variant: the months of a year are counted from 0
MesDeDesdeCero(i) == (i - 1) % 12
MesDe(i) == ((i - 1) % 12) + 1

\* "if capital_pendiente < 0: capital_pendiente = 0"
NoNegativo(x) == IF QLt(x, Cero) THEN Cero ELSE x

(***************************************************************************)
(* generar_cuadro_amortizacion, the two loops of rows 1..meses.            *)
(***************************************************************************)
\* One pass of the French loop: row i from the balance before it
FilaFrances(capital_pendiente, cuota, tipo_mensual, i) ==
    LET interes == QMul(capital_pendiente, tipo_mensual)
        amortizacion == QSub(cuota, interes)
    IN  Fila(AnioDe(i), MesDe(i), cuota, interes, amortizacion,
             NoNegativo(QSub(capital_pendiente, amortizacion)), Cero, Cero)

RECURSIVE FilasFrances(_, _, _, _, _)
FilasFrances(datos, cuota, tipo_mensual, i, meses) ==
    IF i > meses THEN datos
    ELSE Unico({FilasFrances(Append(datos, fila), cuota, tipo_mensual, i + 1,
                             meses) :
                fila \in {FilaFrances(datos[Len(datos)].capital_pendiente,
                                      cuota, tipo_mensual, i)}})

\* Variant: the fixed amount is taken for the installment, as in the French
\* loop, and the interest is subtracted from it
FilaAlemanComoFrances(capital_pendiente, amortizacion_fija, tipo_mensual, i) ==
    FilaFrances(capital_pendiente, amortizacion_fija, tipo_mensual, i)

\* One pass of the German loop
FilaAleman(capital_pendiente, amortizacion_fija, tipo_mensual, i) ==
    LET interes == QMul(capital_pendiente, tipo_mensual)
        cuota == QAdd(amortizacion_fija, interes)
    IN  Fila(AnioDe(i), MesDe(i), cuota, interes, amortizacion_fija,
             NoNegativo(QSub(capital_pendiente, amortizacion_fija)), Cero, Cero)

RECURSIVE FilasAleman(_, _, _, _, _)
FilasAleman(datos, amortizacion_fija, tipo_mensual, i, meses) ==
    IF i > meses THEN datos
    ELSE Unico({FilasAleman(Append(datos, fila), amortizacion_fija,
                            tipo_mensual, i + 1, meses) :
                fila \in {FilaAleman(datos[Len(datos)].capital_pendiente,
                                     amortizacion_fija, tipo_mensual, i)}})

\* The call raises ZeroDivisionError (Python float / 0) exactly when meses = 0.
GenerarFalla(principal, tae, meses, sistema) == meses = 0

\* The schedule returned when the call does not raise.  With meses < 0 the
\* loops do not run and the installment computed before them is not used.
generar_cuadro_amortizacion(principal, tae, meses, sistema) ==
    LET datos == <<FilaInicial(principal)>>
        Frances(tipo_mensual) ==
            Unico({FilasFrances(datos, cuota, tipo_mensual, 1, meses) :
                   cuota \in {calcular_cuota_francesa(principal, tipo_mensual,
                                                      meses)}})
        Aleman(tipo_mensual) ==
            Unico({FilasAleman(datos, amortizacion_fija, tipo_mensual, 1, meses) :
                   amortizacion_fija \in {QDiv(principal, Z(meses))}})
    IN  IF meses < 1 THEN datos
        ELSE Unico({IF sistema = "frances" THEN Frances(tipo_mensual)
                    ELSE Aleman(tipo_mensual) :
                    tipo_mensual \in {calcular_tipo_mensual(tae)}})

(***************************************************************************)
(* calcular_penalizacion                                                   *)
(***************************************************************************)
\* Variant: the month that closes the window is left out of it
calcular_penalizacion_estricta(cantidad, mes_actual, meses_totales, anios_penalizacion, pct_penalizacion) ==
    LET meses_penalizacion == anios_penalizacion * 12
    IN  IF mes_actual < meses_penalizacion
        THEN QMul(cantidad, QDiv(pct_penalizacion, Cien))
        ELSE Cero

calcular_penalizacion(cantidad, mes_actual, meses_totales, anios_penalizacion, pct_penalizacion) ==
    LET meses_penalizacion == anios_penalizacion * 12
    IN  IF mes_actual <= meses_penalizacion
        THEN QMul(cantidad, QDiv(pct_penalizacion, Cien))
        ELSE Cero

(***************************************************************************)
(* aplicar_amortizacion_parcial                                            *)
(***************************************************************************)
\* Rows are indexed from 0 as in the code: row idx is cuadro[idx + 1].
FilaEn(cuadro, idx) == cuadro[idx + 1]
\* cuadro.iloc[:k]
Primeras(cuadro, k) == SubSeq(cuadro, 1, k)

\* The search loop: index of the first row with the given (año, mes), or
\* Ninguno when the loop ends without a match.
Ninguno == 0 - 1
\* Variant: the last row stands for a month the schedule does not have
BuscarFilaOUltima(cuadro, anio_aplicacion, mes_aplicacion) ==
    LET coincide == {idx \in 0..(Len(cuadro) - 1) :
                        /\ FilaEn(cuadro, idx).anio = anio_aplicacion
                        /\ FilaEn(cuadro, idx).mes = mes_aplicacion}
    IN  IF coincide = {} THEN Len(cuadro) - 1
        ELSE CHOOSE idx \in coincide : \A j \in coincide : idx <= j

BuscarFila(cuadro, anio_aplicacion, mes_aplicacion) ==
    LET coincide == {idx \in 0..(Len(cuadro) - 1) :
                        /\ FilaEn(cuadro, idx).anio = anio_aplicacion
                        /\ FilaEn(cuadro, idx).mes = mes_aplicacion}
    IN  IF coincide = {} THEN Ninguno
        ELSE CHOOSE idx \in coincide : \A j \in coincide : idx <= j

\* "if idx_encontrado is None or idx_encontrado < 1: return cuadro_nuevo"
SinEfecto(idx_encontrado) == idx_encontrado = Ninguno \/ idx_encontrado < 1

\* Variant: no copy, the function works on the caller's object
CopiaCuadroAlias(cuadro) == [propio |-> FALSE, filas |-> cuadro]

\* cuadro.copy(): the function works on an object of its own, so that its
\* writes do not reach the caller's object.
CopiaCuadro(cuadro) == [propio |-> TRUE, filas |-> cuadro]

\* comision = cantidad * (pct_comision / 100)
ComisionDe(cantidad, pct_comision) == QMul(cantidad, QDiv(pct_comision, Cien))

\* Variant: the gross amount is recorded as the capital reduction
AjusteBruto(cantidad, pct_comision, capital_antes) ==
    LET comision == ComisionDe(cantidad, pct_comision)
        cantidad_efectiva == QSub(cantidad, comision)
        nuevo_capital == QSub(capital_antes, cantidad_efectiva)
    IN  IF QLt(nuevo_capital, Cero)
        THEN [cantidad_efectiva |-> capital_antes,
              comision |-> QMul(QDiv(capital_antes,
                                     QSub(Uno, QDiv(pct_comision, Cien))),
                                QDiv(pct_comision, Cien)),
              nuevo_capital |-> Cero]
        ELSE [cantidad_efectiva |-> cantidad,
              comision |-> comision,
              nuevo_capital |-> nuevo_capital]

\* Variant: on a payoff the fee stays the fee of the requested amount
AjusteSinDespeje(cantidad, pct_comision, capital_antes) ==
    LET comision == ComisionDe(cantidad, pct_comision)
        cantidad_efectiva == QSub(cantidad, comision)
        nuevo_capital == QSub(capital_antes, cantidad_efectiva)
    IN  IF QLt(nuevo_capital, Cero)
        THEN [cantidad_efectiva |-> capital_antes,
              comision |-> comision,
              nuevo_capital |-> Cero]
        ELSE [cantidad_efectiva |-> cantidad_efectiva,
              comision |-> comision,
              nuevo_capital |-> nuevo_capital]

\* Variant: the new balance is not clamped at zero
AjusteSinTope(cantidad, pct_comision, capital_antes) ==
    LET comision == ComisionDe(cantidad, pct_comision)
        cantidad_efectiva == QSub(cantidad, comision)
    IN  [cantidad_efectiva |-> cantidad_efectiva,
         comision |-> comision,
         nuevo_capital |-> QSub(capital_antes, cantidad_efectiva)]

\* The values written on the located row: the net amount, the fee and the
\* new balance, clamped to the payoff of the row's balance.
Ajuste(cantidad, pct_comision, capital_antes) ==
    LET comision == ComisionDe(cantidad, pct_comision)
        cantidad_efectiva == QSub(cantidad, comision)
        nuevo_capital == QSub(capital_antes, cantidad_efectiva)
    IN  IF QLt(nuevo_capital, Cero)
        THEN [cantidad_efectiva |-> capital_antes,
              comision |-> QMul(QDiv(capital_antes,
                                     QSub(Uno, QDiv(pct_comision, Cien))),
                                QDiv(pct_comision, Cien)),
              nuevo_capital |-> Cero]
        ELSE [cantidad_efectiva |-> cantidad_efectiva,
              comision |-> comision,
              nuevo_capital |-> nuevo_capital]

\* Variant: the penalty is charged on the located row, with the fee
MarcarConPenalizacion(filas, idx_encontrado, a, penalizacion) ==
    [filas EXCEPT ![idx_encontrado + 1] =
        [@ EXCEPT !.amortizacion_anticipada = a.cantidad_efectiva,
                  !.comision = QAdd(a.comision, penalizacion),
                  !.capital_pendiente = a.nuevo_capital]]

\* The three cuadro_nuevo.at[idx_encontrado, ...] assignments; penalizacion
\* is in scope and none of them reads it.
Marcar(filas, idx_encontrado, a, penalizacion) ==
    [filas EXCEPT ![idx_encontrado + 1] =
        [@ EXCEPT !.amortizacion_anticipada = a.cantidad_efectiva,
                  !.comision = a.comision,
                  !.capital_pendiente = a.nuevo_capital]]

\* Variant: the German rows are made as the French ones, the fixed amount
\* taken for the installment
FilaModoCuotaComoFrances(capital_pendiente, cuota_o_amortizacion, tipo_mensual, mes_absoluto, sistema) ==
    LET interes == QMul(capital_pendiente, tipo_mensual)
        amortizacion == QSub(cuota_o_amortizacion, interes)
    IN  Fila(AnioDe(mes_absoluto), MesDe(mes_absoluto), cuota_o_amortizacion,
             interes, amortizacion,
             NoNegativo(QSub(capital_pendiente, amortizacion)), Cero, Cero)

\* modo == 'cuota': one pass of the loop over
\* range(1, meses_restantes_original + 1).  cuota_o_amortizacion is nueva_cuota
\* (French) or amortizacion_fija (German), computed before the loop.
FilaModoCuota(capital_pendiente, cuota_o_amortizacion, tipo_mensual, mes_absoluto, sistema) ==
    LET interes == QMul(capital_pendiente, tipo_mensual)
        amortizacion == IF sistema = "frances"
                        THEN QSub(cuota_o_amortizacion, interes)
                        ELSE cuota_o_amortizacion
        cuota == IF sistema = "frances" THEN cuota_o_amortizacion
                 ELSE QAdd(amortizacion, interes)
    IN  Fila(AnioDe(mes_absoluto), MesDe(mes_absoluto), cuota, interes,
             amortizacion, NoNegativo(QSub(capital_pendiente, amortizacion)),
             Cero, Cero)

RECURSIVE FilasModoCuota(_, _, _, _, _, _, _, _)
FilasModoCuota(nuevas_filas, capital_pendiente, cuota_o_amortizacion, tipo_mensual, mes_global, i, meses_restantes_original, sistema) ==
    IF i > meses_restantes_original THEN nuevas_filas
    ELSE Unico({FilasModoCuota(Append(nuevas_filas, fila),
                               fila.capital_pendiente, cuota_o_amortizacion,
                               tipo_mensual, mes_global, i + 1,
                               meses_restantes_original, sistema) :
                fila \in {FilaModoCuota(capital_pendiente, cuota_o_amortizacion,
                                        tipo_mensual, mes_global + i, sistema)}})

\* Variant: the new installment is spread over one month more than remain
NuevaCuotaUnMesMas(nuevo_capital, tipo_mensual, meses_restantes_original, sistema) ==
    IF sistema = "frances"
    THEN calcular_cuota_francesa(nuevo_capital, tipo_mensual,
                                 meses_restantes_original + 1)
    ELSE QDiv(nuevo_capital, Z(meses_restantes_original + 1))

\* Variant: the new installment is the new balance spread evenly, whatever
\* the rate
NuevaCuotaSinInteres(nuevo_capital, tipo_mensual, meses_restantes_original, sistema) ==
    IF meses_restantes_original = 0 THEN <<1, 0>>
    ELSE QDiv(nuevo_capital, Z(meses_restantes_original))

\* "nueva_cuota = calcular_cuota_francesa(nuevo_capital, tipo_mensual,
\* meses_restantes_original)" or "amortizacion_fija = nuevo_capital /
\* meses_restantes_original".  With meses_restantes_original = 0 the division
\* is a numpy division by zero, which gives inf and raises nothing; the loop
\* that would read the value does not run.
NuevaCuota(nuevo_capital, tipo_mensual, meses_restantes_original, sistema) ==
    IF meses_restantes_original = 0 THEN <<1, 0>>
    ELSE IF sistema = "frances"
    THEN calcular_cuota_francesa(nuevo_capital, tipo_mensual,
                                 meses_restantes_original)
    ELSE QDiv(nuevo_capital, Z(meses_restantes_original))

\* modo == 'plazo': "while capital_pendiente > 0.01", with the break at
\* "mes_contador > 1000".
Centimo == Q(1, 100)
MaxFilasPlazo == 1000

\* Variant: no row is taken for the one that pays the loan off
LiquidaNunca(amortizacion, capital_pendiente) == FALSE

\* "if amortizacion >= capital_pendiente": the row that pays the loan off
Liquida(amortizacion, capital_pendiente) == QLe(capital_pendiente, amortizacion)

\* Variant: the row that pays the loan off keeps the fixed installment
FilaModoPlazoSinAjuste(capital_pendiente, cuota_original, tipo_mensual, mes_absoluto) ==
    LET interes == QMul(capital_pendiente, tipo_mensual)
        amortizacion0 == QSub(cuota_original, interes)
        fin == Liquida(amortizacion0, capital_pendiente)
        amortizacion == IF fin THEN capital_pendiente ELSE amortizacion0
        capital == IF fin THEN Cero ELSE QSub(capital_pendiente, amortizacion)
    IN  Fila(AnioDe(mes_absoluto), MesDe(mes_absoluto), cuota_original, interes,
             amortizacion, capital, Cero, Cero)

\* The row one pass of the loop adds
FilaModoPlazo(capital_pendiente, cuota_original, tipo_mensual, mes_absoluto) ==
    LET interes == QMul(capital_pendiente, tipo_mensual)
        amortizacion0 == QSub(cuota_original, interes)
        fin == Liquida(amortizacion0, capital_pendiente)
        amortizacion == IF fin THEN capital_pendiente ELSE amortizacion0
        cuota == IF fin THEN QAdd(amortizacion, interes) ELSE cuota_original
        capital == IF fin THEN Cero ELSE QSub(capital_pendiente, amortizacion)
    IN  Fila(AnioDe(mes_absoluto), MesDe(mes_absoluto), cuota, interes,
             amortizacion, capital, Cero, Cero)

\* One pass of "while capital_pendiente > 0.01: ... if mes_contador > 1000:
\* break" on e = [filas, capital], where mes_contador = Len(e.filas) + 1 is
\* the number of the row the pass adds.  Once the condition fails, or the
\* break has been taken, a pass changes nothing.
PasoPlazo(e, cuota_original, tipo_mensual, mes_global) ==
    IF ~QLt(Centimo, e.capital) \/ Len(e.filas) + 1 > MaxFilasPlazo THEN e
    ELSE Unico({[filas |-> Append(e.filas, fila),
                 capital |-> fila.capital_pendiente] :
                fila \in {FilaModoPlazo(e.capital, cuota_original, tipo_mensual,
                                        mes_global + Len(e.filas) + 1)}})

\* n passes of the loop from e, split in halves to keep the evaluation shallow
RECURSIVE PasosPlazo(_, _, _, _, _)
PasosPlazo(e, n, cuota_original, tipo_mensual, mes_global) ==
    IF n = 1 THEN PasoPlazo(e, cuota_original, tipo_mensual, mes_global)
    ELSE Unico({IF medio = e THEN e
                ELSE PasosPlazo(medio, n - (n \div 2), cuota_original,
                                tipo_mensual, mes_global) :
                medio \in {PasosPlazo(e, n \div 2, cuota_original, tipo_mensual,
                                      mes_global)}})

\* The loop: at most MaxFilasPlazo passes add a row.
FilasModoPlazo(nuevo_capital, cuota_original, tipo_mensual, mes_global) ==
    Unico({PasosPlazo(e, MaxFilasPlazo, cuota_original, tipo_mensual,
                      mes_global).filas :
           e \in {[filas |-> <<>>, capital |-> nuevo_capital]}})

\* The rows after the located row, from the marked schedule
NuevasFilas(marcado, idx_encontrado, nuevo_capital, tipo_mensual, mes_global, modo, sistema) ==
    LET meses_restantes_original == Len(marcado) - idx_encontrado - 1
    IN  IF modo = "cuota"
        THEN Unico({FilasModoCuota(<<>>, nuevo_capital, nueva, tipo_mensual,
                                   mes_global, 1, meses_restantes_original,
                                   sistema) :
                    nueva \in {NuevaCuota(nuevo_capital, tipo_mensual,
                                          meses_restantes_original, sistema)}})
        ELSE Unico({FilasModoPlazo(nuevo_capital, cuota_original, tipo_mensual,
                                   mes_global) :
                    cuota_original \in {FilaEn(marcado, idx_encontrado).cuota}})

\* The whole call.  resultado: the rows of the returned schedule; argumento:
\* the rows of the caller's object when the call returns; separado: the
\* returned object is not the caller's object.  The penalty is computed
\* (calcular_penalizacion) before the located row is marked.
aplicar_amortizacion_parcial(cuadro, cantidad, anio_aplicacion, mes_aplicacion, tae, modo, anios_penalizacion, pct_penalizacion, pct_comision, sistema) ==
    LET mes_global == (anio_aplicacion - 1) * 12 + mes_aplicacion
        \* from the marking of the located row to the return
        Resto(cuadro_nuevo, idx_encontrado, tipo_mensual, a, marcado) ==
            [resultado |->
                 IF a.nuevo_capital = Cero
                 THEN Primeras(marcado, idx_encontrado + 1)
                 ELSE Primeras(marcado, idx_encontrado + 1)
                      \o NuevasFilas(marcado, idx_encontrado, a.nuevo_capital,
                                     tipo_mensual, mes_global, modo, sistema),
             argumento |-> IF cuadro_nuevo.propio THEN cuadro ELSE marcado,
             separado |-> TRUE]
        penalizacion(cuadro_nuevo) ==
            calcular_penalizacion(cantidad, mes_global,
                                  Len(cuadro_nuevo.filas) - 1,
                                  anios_penalizacion, pct_penalizacion)
        \* from the fee to the marking of the located row
        Localizado(cuadro_nuevo, idx_encontrado, tipo_mensual) ==
            Unico({Unico({Resto(cuadro_nuevo, idx_encontrado, tipo_mensual, a,
                                marcado) :
                          marcado \in {Marcar(cuadro_nuevo.filas,
                                              idx_encontrado, a,
                                              penalizacion(cuadro_nuevo))}}) :
                   a \in {Ajuste(cantidad, pct_comision,
                                 FilaEn(cuadro_nuevo.filas,
                                        idx_encontrado).capital_pendiente)}})
        \* from the search to the return
        Buscado(cuadro_nuevo, idx_encontrado) ==
            IF SinEfecto(idx_encontrado)
            THEN [resultado |-> cuadro_nuevo.filas,
                  argumento |-> cuadro,
                  separado |-> cuadro_nuevo.propio]
            ELSE Unico({Localizado(cuadro_nuevo, idx_encontrado, tipo_mensual) :
                        tipo_mensual \in {calcular_tipo_mensual(tae)}})
        Copiado(cuadro_nuevo) ==
            Unico({Buscado(cuadro_nuevo, idx_encontrado) :
                   idx_encontrado \in {BuscarFila(cuadro_nuevo.filas,
                                                 anio_aplicacion,
                                                 mes_aplicacion)}})
    IN  Unico({Copiado(cuadro_nuevo) : cuadro_nuevo \in {CopiaCuadro(cuadro)}})

(***************************************************************************)
(* aplicar_amortizaciones_recurrentes                                      *)
(***************************************************************************)
\* Variant: the targets start one month before mes_inicio
MesesAmortizacionDesdeAntes(mes_inicio, meses, periodicidad) ==
    LET cuantos == IF meses < mes_inicio - 1 THEN 0
                   ELSE ((meses - (mes_inicio - 1)) \div periodicidad) + 1
    IN  [k \in 1..cuantos |-> (mes_inicio - 1) + (k - 1) * periodicidad]

\* list(range(mes_inicio, meses + 1, periodicidad)), for periodicidad >= 1
MesesAmortizacion(mes_inicio, meses, periodicidad) ==
    LET cuantos == IF meses < mes_inicio THEN 0
                   ELSE ((meses - mes_inicio) \div periodicidad) + 1
    IN  [k \in 1..cuantos |-> mes_inicio + (k - 1) * periodicidad]

\* Variant: the search starts at the second row after row 0
BuscarFilaRecurrenteDesdeDos(cuadro, anio_objetivo, mes_del_anio_objetivo) ==
    LET coincide == {idx \in 2..(Len(cuadro) - 1) :
                        /\ FilaEn(cuadro, idx).anio = anio_objetivo
                        /\ FilaEn(cuadro, idx).mes = mes_del_anio_objetivo}
    IN  IF coincide = {} THEN Ninguno
        ELSE CHOOSE idx \in coincide : \A j \in coincide : idx <= j

\* The search loop "for idx in range(1, len(cuadro))": index of the first row
\* after row 0 with the given (año, mes), or Ninguno
BuscarFilaRecurrente(cuadro, anio_objetivo, mes_del_anio_objetivo) ==
    LET coincide == {idx \in 1..(Len(cuadro) - 1) :
                        /\ FilaEn(cuadro, idx).anio = anio_objetivo
                        /\ FilaEn(cuadro, idx).mes = mes_del_anio_objetivo}
    IN  IF coincide = {} THEN Ninguno
        ELSE CHOOSE idx \in coincide : \A j \in coincide : idx <= j

\* Variant: a balance is never taken for paid off
SaldoAgotadoNunca(fila) == FALSE

\* "if cuadro.iloc[fila_encontrada]['capital_pendiente'] <= 0.01: break"
SaldoAgotado(fila) == QLe(fila.capital_pendiente, Centimo)

\* What one pass of the loop did with its target
Paso(mes_objetivo, accion, antes) ==
    [mes_objetivo |-> mes_objetivo, accion |-> accion, antes |-> antes]

\* One pass of "for mes_objetivo in meses_amortizacion" on e = [cuadro, traza,
\* parado]: cuadro is the working schedule, traza the passes made so far and
\* parado tells that the break was taken.
PasoRecurrente(e, mes_objetivo, cantidad_recurrente, tae, modo, anios_penalizacion, pct_penalizacion, pct_comision, sistema) ==
    LET Hecho(accion, cuadro_nuevo) ==
            [cuadro |-> cuadro_nuevo,
             traza |-> Append(e.traza, Paso(mes_objetivo, accion, e.cuadro)),
             parado |-> accion = "parado"]
        Encontrada(anio_objetivo, mes_del_anio_objetivo, fila_encontrada) ==
            IF fila_encontrada = Ninguno THEN Hecho("omitido", e.cuadro)
            ELSE IF SaldoAgotado(FilaEn(e.cuadro, fila_encontrada))
            THEN Hecho("parado", e.cuadro)
            ELSE Unico({Hecho("aplicado", r.resultado) :
                        r \in {aplicar_amortizacion_parcial(
                                   e.cuadro, cantidad_recurrente, anio_objetivo,
                                   mes_del_anio_objetivo, tae, modo,
                                   anios_penalizacion, pct_penalizacion,
                                   pct_comision, sistema)}})
        Objetivo(anio_objetivo, mes_del_anio_objetivo) ==
            Unico({Encontrada(anio_objetivo, mes_del_anio_objetivo,
                              fila_encontrada) :
                   fila_encontrada \in {BuscarFilaRecurrente(
                                           e.cuadro, anio_objetivo,
                                           mes_del_anio_objetivo)}})
    IN  Unico({Objetivo(objetivo[1], objetivo[2]) :
               objetivo \in {<<AnioDe(mes_objetivo), MesDe(mes_objetivo)>>}})

\* The loop from its k-th target on
RECURSIVE PasosRecurrentes(_, _, _, _, _, _, _, _, _, _)
PasosRecurrentes(e, k, meses_amortizacion, cantidad_recurrente, tae, modo, anios_penalizacion, pct_penalizacion, pct_comision, sistema) ==
    IF k > Len(meses_amortizacion) \/ e.parado THEN e
    ELSE Unico({PasosRecurrentes(siguiente, k + 1, meses_amortizacion,
                                 cantidad_recurrente, tae, modo,
                                 anios_penalizacion, pct_penalizacion,
                                 pct_comision, sistema) :
                siguiente \in {Unico({PasoRecurrente(
                                          e, mes_objetivo, cantidad_recurrente,
                                          tae, modo, anios_penalizacion,
                                          pct_penalizacion, pct_comision,
                                          sistema) :
                                      mes_objetivo \in {meses_amortizacion[k]}})}})

\* The whole call, for meses # 0 and periodicidad >= 1.  cuadro: the schedule
\* returned; traza: the passes of the loop, in the order they were made.
aplicar_amortizaciones_recurrentes(principal, tae, meses, cantidad_recurrente, periodicidad, mes_inicio, modo, anios_penalizacion, pct_penalizacion, pct_comision, sistema) ==
    LET Bucle(cuadro, meses_amortizacion) ==
            PasosRecurrentes([cuadro |-> cuadro, traza |-> <<>>,
                              parado |-> FALSE],
                             1, meses_amortizacion, cantidad_recurrente, tae,
                             modo, anios_penalizacion, pct_penalizacion,
                             pct_comision, sistema)
    IN  Unico({Bucle(previo[1], previo[2]) :
               previo \in {<<generar_cuadro_amortizacion(principal, tae, meses,
                                                         sistema),
                             MesesAmortizacion(mes_inicio, meses,
                                               periodicidad)>>}})

(***************************************************************************)
(* calcular_resumen                                                        *)
(***************************************************************************)
\* Sum of a column over the rows at positions lo..hi (split in halves to
\* keep the evaluation shallow)
RECURSIVE SumaRango(_, _, _, _)
SumaRango(cuadro, col, lo, hi) ==
    IF hi < lo THEN Cero
    ELSE IF lo = hi THEN FilaEn(cuadro, lo)[col]
    ELSE LET medio == (lo + hi) \div 2
         IN  QAdd(SumaRango(cuadro, col, lo, medio),
                  SumaRango(cuadro, col, medio + 1, hi))

\* Variant: the first installment row is left out of the sums as well
SumaColumnaDesdeDos(cuadro, col) == SumaRango(cuadro, col, 2, Len(cuadro) - 1)

\* cuadro.iloc[1:][col].sum()
SumaColumna(cuadro, col) == SumaRango(cuadro, col, 1, Len(cuadro) - 1)

\* Position of the last row after row 0 with amortizacion_anticipada > 0,
\* or Ninguno.
UltimaAnticipada(cuadro) ==
    LET con == {pos \in 1..(Len(cuadro) - 1) :
                   QLt(Cero, FilaEn(cuadro, pos).amortizacion_anticipada)}
    IN  IF con = {} THEN Ninguno
        ELSE CHOOSE pos \in con : \A j \in con : j <= pos

calcular_resumen(cuadro) ==
    LET n == Len(cuadro)
        num_cuotas == n - 1
        total_cuotas == SumaColumna(cuadro, "cuota")
        total_anticipada == SumaColumna(cuadro, "amortizacion_anticipada")
        total_comisiones == SumaColumna(cuadro, "comision")
        primera_cuota == IF num_cuotas > 0 THEN FilaEn(cuadro, 1).cuota ELSE Cero
        pos_ultimo == UltimaAnticipada(cuadro)
        cuota_final ==
            IF pos_ultimo = Ninguno THEN primera_cuota
            ELSE IF pos_ultimo + 1 < n THEN FilaEn(cuadro, pos_ultimo + 1).cuota
            ELSE FilaEn(cuadro, pos_ultimo).cuota
    IN  [total_intereses |-> SumaColumna(cuadro, "interes"),
         total_pagado |-> QAdd(QAdd(total_cuotas, total_anticipada), total_comisiones),
         num_cuotas |-> num_cuotas,
         cuota_inicial |-> primera_cuota,
         cuota_final |-> cuota_final,
         \* the mean of an empty column is NaN
         cuota_media |-> IF num_cuotas > 0 THEN QDiv(total_cuotas, Z(num_cuotas))
                         ELSE <<0, 0>>,
         total_amortizacion_anticipada |-> total_anticipada,
         total_comisiones |-> total_comisiones,
         duracion_anios |-> Q(num_cuotas, 12)]

(***************************************************************************)
(* Inputs of the model                                                     *)
(***************************************************************************)
\* Longest term generated, and number of prepayments applied in a row
MaxMeses == 3
MaxAplicaciones == 2
\* Longest term of a loan with recurring prepayments, and longest period
MaxMesesRecurrentes == 5
MaxPeriodicidad == 2

Principales == {Z(12), Z(0 - 12)}
\* TAE (percent) of monthly rate 0, 1 and -1/2
Taes == {Cero, Z(409500), Q(0 - 102375, 1024)}
Plazos == (0 - 1)..MaxMeses
Sistemas == {"frances", "aleman"}
Modos == {"cuota", "plazo"}
\* <<gross amount, fee rate (percent)>> of a prepayment
Eventos == {<<Cero, Cero>>, <<Z(6), Cero>>, <<Z(6), Z(50)>>,
            <<Q(399, 100), Cero>>}
\* and with an amount out of range
EventosNegativos == {<<Z(0 - 8), Cero>>}
\* and of the recurring prepayments
EventosRecurrentes == {<<Z(1), Cero>>, <<Z(6), Cero>>, <<Z(6), Z(50)>>,
                       <<Z(9), Cero>>}
PlazosRecurrentes == 1..MaxMesesRecurrentes
Periodicidades == 1..MaxPeriodicidad
MesesInicio == 1..3
\* (año, mes) targets: row 0 and the months of the longest term (a month
\* that a shorter schedule does not have)
Objetivos == {<<0, 0>>} \cup {<<1, m>> : m \in 1..MaxMeses}
AniosPenalizacion == 10
PctPenalizacion == Q(1, 2)
\* <<anios_penalizacion, pct_penalizacion>> of a call: the defaults, and a
\* window that no month is in
Penalizaciones == {<<AniosPenalizacion, PctPenalizacion>>, <<0, Z(2)>>}
\* Arguments of a call of calcular_penalizacion: <<cantidad, mes_actual,
\* meses_totales, anios_penalizacion, pct_penalizacion>>, with the months on
\* both sides of the end of the window
ArgumentosPenalizacion ==
    {<<cantidad, mes_actual, meses_totales, anios, pct>> :
        cantidad \in {Cero, Z(1000), Z(0 - 8)},
        mes_actual \in {5, AniosPenalizacion * 12, AniosPenalizacion * 12 + 1},
        meses_totales \in {MaxMeses, 360},
        anios \in {0, AniosPenalizacion},
        pct \in {Cero, PctPenalizacion}}

\* LoanTerms in the ranges the engine is specified for
TerminosValidos(principal, tae, meses) ==
    /\ QLt(Cero, principal)
    /\ QLe(Cero, tae)
    /\ meses >= 1

(***************************************************************************)
(* State                                                                   *)
(***************************************************************************)
VARIABLES
    pc,            \* "inicio", "generado", "recurrente", "fuera", "resumido",
                   \* "fallo" or "penalizado"
    cuadro,        \* the schedule the caller holds
    ultima,        \* the last engine call: its arguments and what it returned
    resumen,       \* the summary of cuadro, <<>> before it is computed
    aplicaciones,  \* number of calls of aplicar_amortizacion_parcial
    penalizacion,  \* the last call of calcular_penalizacion: its arguments
                   \* and the value returned, <<>> before any
    recurrente     \* the call of aplicar_amortizaciones_recurrentes: its
                   \* periodicidad and mes_inicio and the passes of its loop,
                   \* <<>> when there was none

vars == <<pc, cuadro, ultima, resumen, aplicaciones, penalizacion, recurrente>>

Llamada(op, error, principal, tae, meses, sistema, cantidad, objetivo, modo, pct_comision, entrada, argumento, separado) ==
    [op |-> op, error |-> error, principal |-> principal, tae |-> tae,
     meses |-> meses, sistema |-> sistema, cantidad |-> cantidad,
     objetivo |-> objetivo, modo |-> modo, pct_comision |-> pct_comision,
     entrada |-> entrada, argumento |-> argumento, separado |-> separado]

Init ==
    /\ pc = "inicio"
    /\ cuadro = <<>>
    /\ ultima = Llamada("ninguna", "", Cero, Cero, 0, "", Cero, <<0, 0>>, "",
                        Cero, <<>>, <<>>, FALSE)
    /\ resumen = <<>>
    /\ aplicaciones = 0
    /\ penalizacion = <<>>
    /\ recurrente = <<>>

\* cuadro = generar_cuadro_amortizacion(principal, tae, meses, sistema)
Generar(principal, tae, meses, sistema) ==
    /\ pc = "inicio"
    /\ IF GenerarFalla(principal, tae, meses, sistema)
       THEN /\ pc' = "fallo"
            /\ cuadro' = cuadro
            /\ ultima' = Llamada("generar", "ZeroDivisionError", principal, tae,
                                 meses, sistema, Cero, <<0, 0>>, "", Cero,
                                 <<>>, <<>>, FALSE)
       ELSE /\ pc' = "generado"
            /\ cuadro' = generar_cuadro_amortizacion(principal, tae, meses, sistema)
            /\ ultima' = Llamada("generar", "", principal, tae, meses, sistema,
                                 Cero, <<0, 0>>, "", Cero, <<>>, <<>>, TRUE)
    /\ resumen' = <<>>
    /\ UNCHANGED <<aplicaciones, penalizacion, recurrente>>

\* cuadro = aplicar_amortizacion_parcial(cuadro, cantidad, año, mes, tae, modo,
\*              pct_comision=..., sistema=...), called as the application
\* calls it: with the loan's own rate and system.  pen is the
\* <<anios_penalizacion, pct_penalizacion>> of the call.
Llamar(evento, objetivo, modo, pen) ==
    LET r == aplicar_amortizacion_parcial(
                 cuadro, evento[1], objetivo[1], objetivo[2], ultima.tae, modo,
                 pen[1], pen[2], evento[2], ultima.sistema)
    IN  /\ cuadro' = r.resultado
        /\ ultima' = Llamada("aplicar", "", ultima.principal, ultima.tae,
                             ultima.meses, ultima.sistema, evento[1], objetivo,
                             modo, evento[2], cuadro, r.argumento, r.separado)
        /\ resumen' = <<>>
        /\ aplicaciones' = aplicaciones + 1
        /\ UNCHANGED <<penalizacion, recurrente>>

\* A prepayment in the valid ranges on the schedule of a loan with valid terms
Aplicar(evento, objetivo, modo, pen) ==
    /\ pc = "generado"
    /\ TerminosValidos(ultima.principal, ultima.tae, ultima.meses)
    /\ aplicaciones < MaxAplicaciones
    /\ Llamar(evento, objetivo, modo, pen)
    /\ UNCHANGED pc

\* A call the model leaves out: mode 'plazo' at a located row whose
\* installment is below the interest on the balance written on the row (only
\* a negative amount does that).  The balance then grows by a constant factor
\* on each of MaxFilasPlazo rows, out of the range the model computes in.
Desborda(filas, evento, objetivo, tae, modo) ==
    LET idx == BuscarFila(filas, objetivo[1], objetivo[2])
        a == Ajuste(evento[1], evento[2], FilaEn(filas, idx).capital_pendiente)
    IN  /\ modo = "plazo"
        /\ ~SinEfecto(idx)
        /\ QLt(FilaEn(filas, idx).cuota,
               QMul(a.nuevo_capital, calcular_tipo_mensual(tae)))

\* A prepayment of a negative amount, which the engine accepts, on a schedule
\* as generated; the model follows the loan no further after it.
AplicarNegativa(evento, objetivo, modo, pen) ==
    /\ pc = "generado"
    /\ TerminosValidos(ultima.principal, ultima.tae, ultima.meses)
    /\ aplicaciones = 0
    /\ ~Desborda(cuadro, evento, objetivo, ultima.tae, modo)
    /\ Llamar(evento, objetivo, modo, pen)
    /\ pc' = "fuera"

\* resumen = calcular_resumen(cuadro), on the schedule the caller ends with
Resumir ==
    /\ pc \in {"generado", "recurrente", "fuera"}
    /\ resumen' = calcular_resumen(cuadro)
    /\ pc' = "resumido"
    /\ UNCHANGED <<cuadro, ultima, aplicaciones, penalizacion, recurrente>>

\* penalizacion = calcular_penalizacion(cantidad, mes_actual, meses_totales,
\*                    anios_penalizacion, pct_penalizacion), called on its own
Penalizar(args) ==
    /\ pc = "inicio"
    /\ penalizacion' =
           [cantidad |-> args[1], mes_actual |-> args[2],
            meses_totales |-> args[3], anios_penalizacion |-> args[4],
            pct_penalizacion |-> args[5],
            valor |-> calcular_penalizacion(args[1], args[2], args[3],
                                            args[4], args[5])]
    /\ pc' = "penalizado"
    /\ UNCHANGED <<cuadro, ultima, resumen, aplicaciones, recurrente>>

\* cuadro = aplicar_amortizaciones_recurrentes(principal, tae, meses,
\*              cantidad_recurrente, periodicidad, mes_inicio, modo, ...), on
\* loan terms and a prepayment in the valid ranges; pen is the
\* <<anios_penalizacion, pct_penalizacion>> of the call
Recurrentes(principal, tae, meses, evento, periodicidad, mes_inicio, modo, pen, sistema) ==
    /\ pc = "inicio"
    /\ TerminosValidos(principal, tae, meses)
    /\ \E r \in {aplicar_amortizaciones_recurrentes(
                     principal, tae, meses, evento[1], periodicidad,
                     mes_inicio, modo, pen[1], pen[2], evento[2],
                     sistema)} :
           /\ cuadro' = r.cuadro
           /\ recurrente' = [periodicidad |-> periodicidad,
                             mes_inicio |-> mes_inicio, traza |-> r.traza]
    /\ ultima' = Llamada("recurrentes", "", principal, tae, meses, sistema,
                         evento[1], <<0, 0>>, modo, evento[2], <<>>, <<>>, TRUE)
    /\ resumen' = <<>>
    /\ pc' = "recurrente"
    /\ UNCHANGED <<aplicaciones, penalizacion>>

Next ==
    \/ \E principal \in Principales, tae \in Taes, meses \in Plazos,
          sistema \in Sistemas : Generar(principal, tae, meses, sistema)
    \/ \E evento \in Eventos, objetivo \in Objetivos, modo \in Modos,
          pen \in Penalizaciones : Aplicar(evento, objetivo, modo, pen)
    \/ \E evento \in EventosNegativos, objetivo \in Objetivos, modo \in Modos,
          pen \in Penalizaciones : AplicarNegativa(evento, objetivo, modo, pen)
    \/ Resumir
    \/ \E args \in ArgumentosPenalizacion : Penalizar(args)
    \/ \E principal \in Principales, tae \in Taes, meses \in PlazosRecurrentes,
          evento \in EventosRecurrentes, periodicidad \in Periodicidades,
          mes_inicio \in MesesInicio, modo \in Modos,
          pen \in Penalizaciones, sistema \in Sistemas :
          Recurrentes(principal, tae, meses, evento, periodicidad, mes_inicio,
                      modo, pen, sistema)

Spec == Init /\ [][Next]_vars

(***************************************************************************)
(* Properties.  They read the last engine call (ultima), the schedule it   *)
(* returned (cuadro) and the summary; the located row, the fee and the net *)
(* amount are restated here from the arguments of the call.                *)
(***************************************************************************)
FueGenerar == ultima.op = "generar" /\ ultima.error = ""
FueAplicar == ultima.op = "aplicar"

\* Positions (from 0) of the rows of the schedule passed that have the target
\* (año, mes)
Coincidencias ==
    {idx \in 0..(Len(ultima.entrada) - 1) :
        /\ ultima.entrada[idx + 1].anio = ultima.objetivo[1]
        /\ ultima.entrada[idx + 1].mes = ultima.objetivo[2]}
\* The target is an existing row with index >= 1
Localizada == FueAplicar /\ Coincidencias # {} /\ ~(0 \in Coincidencias)
IdxObjetivo == CHOOSE idx \in Coincidencias : \A j \in Coincidencias : idx <= j
\* The located row before and after the call
FilaAntes == ultima.entrada[IdxObjetivo + 1]
FilaObjetivo == cuadro[IdxObjetivo + 1]
CapitalAntes == FilaAntes.capital_pendiente
ComisionPedida == QDiv(QMul(ultima.cantidad, ultima.pct_comision), Cien)
NetoPedido == QSub(ultima.cantidad, ComisionPedida)
CapitalNuevo == QSub(CapitalAntes, NetoPedido)
MesesRestantes == Len(ultima.entrada) - IdxObjetivo - 1
TipoMensual == calcular_tipo_mensual(ultima.tae)
\* Positions of the rows after the located row in the returned schedule
Regeneradas == (IdxObjetivo + 1)..(Len(cuadro) - 1)
UltimaFila == cuadro[Len(cuadro)]
\* No row other than the located one carries a prepayment or a fee
UnSoloEvento ==
    \A pos \in 1..(Len(cuadro) - 1) :
        pos # IdxObjetivo =>
            /\ cuadro[pos + 1].amortizacion_anticipada = Cero
            /\ cuadro[pos + 1].comision = Cero

\* C1: after a prepayment at an existing row with index >= 1 whose net amount
\* (gross - gross * fee_rate / 100) does not exceed the row's balance, the
\* located row of the returned schedule records fee = gross * fee_rate / 100
\* and prepayment = gross - fee, its balance is the balance before minus the
\* net amount, and the summary of a schedule that carries this single event
\* reports total fees equal to that fee.
C1_SinLiquidar == Localizada /\ QLe(NetoPedido, CapitalAntes)
C1_ComisionYNeto ==
    C1_SinLiquidar =>
        /\ FilaObjetivo.comision = ComisionPedida
        /\ FilaObjetivo.amortizacion_anticipada = QSub(ultima.cantidad,
                                                       ComisionPedida)
        /\ FilaObjetivo.capital_pendiente = QSub(CapitalAntes, NetoPedido)
        /\ (pc = "resumido" /\ UnSoloEvento) =>
               resumen.total_comisiones = ComisionPedida
C1_Testigo ==
    /\ C1_SinLiquidar
    /\ QLt(Cero, ultima.cantidad)
    /\ QLt(Cero, ultima.pct_comision)
    /\ pc = "resumido"
    /\ UnSoloEvento

\* C2: a prepayment whose target (año, mes) no row of the schedule has, or
\* whose matching row is row 0, returns a schedule with the same rows and
\* field values as the one passed, whatever the mode, system, amount and fee
\* rate, and raises no error.
C2_NoOp ==
    (FueAplicar /\ ~Localizada) => (cuadro = ultima.entrada /\ ultima.error = "")
C2_Testigo ==
    /\ FueAplicar
    /\ 0 \in Coincidencias
    /\ QLt(Cero, ultima.cantidad)
    /\ QLt(Cero, ultima.pct_comision)

\* C3: when the net amount exceeds the balance of the located row, the
\* returned schedule ends at the located row, whose balance is 0, whose
\* recorded prepayment is the balance the row had before, and whose recorded
\* fee satisfies fee = (net + fee) * fee_rate / 100; in both modes and both
\* systems.
C3_Liquidada == Localizada /\ QLt(CapitalAntes, NetoPedido)
C3_Liquidacion ==
    C3_Liquidada =>
        /\ Len(cuadro) = IdxObjetivo + 1
        /\ SubSeq(cuadro, 1, IdxObjetivo) = SubSeq(ultima.entrada, 1, IdxObjetivo)
        /\ FilaObjetivo.capital_pendiente = Cero
        /\ FilaObjetivo.amortizacion_anticipada = CapitalAntes
        /\ FilaObjetivo.comision =
               QDiv(QMul(QAdd(FilaObjetivo.amortizacion_anticipada,
                              FilaObjetivo.comision),
                         ultima.pct_comision), Cien)
C3_Testigo ==
    /\ C3_Liquidada
    /\ QLt(Cero, CapitalAntes)
    /\ QLt(Cero, ultima.pct_comision)
    /\ MesesRestantes >= 1

\* C4: in mode 'cuota', when the prepayment does not pay the loan off, the
\* returned schedule keeps the rows up to and including the located row and
\* has as many rows after it as the schedule passed, so both have the same
\* number of rows; the rows after it carry one constant installment that
\* amortizes the new balance in exactly those rows (French), or the constant
\* amortization new balance / remaining_months (German).
C4_ModoCuota ==
    Localizada /\ ultima.modo = "cuota" /\ QLt(NetoPedido, CapitalAntes)
C4_MismaLongitud ==
    C4_ModoCuota =>
        /\ Len(cuadro) = Len(ultima.entrada)
        /\ Len(cuadro) - IdxObjetivo - 1 = MesesRestantes
        /\ SubSeq(cuadro, 1, IdxObjetivo) = SubSeq(ultima.entrada, 1, IdxObjetivo)
        /\ FilaObjetivo.capital_pendiente = CapitalNuevo
        /\ \A pos \in Regeneradas :
               LET fila == cuadro[pos + 1]
                   antes == cuadro[pos].capital_pendiente
               IN  /\ fila.interes = QMul(antes, TipoMensual)
                   /\ fila.cuota = QAdd(fila.amortizacion, fila.interes)
                   /\ fila.capital_pendiente = QSub(antes, fila.amortizacion)
                   /\ IF ultima.sistema = "frances"
                      THEN fila.cuota = cuadro[IdxObjetivo + 2].cuota
                      ELSE fila.amortizacion =
                               QDiv(CapitalNuevo, Z(MesesRestantes))
        /\ MesesRestantes >= 1 => UltimaFila.capital_pendiente = Cero
C4_Testigo ==
    /\ C4_ModoCuota
    /\ ultima.sistema = "frances"
    /\ QLt(Cero, ultima.cantidad)
    /\ QLt(Cero, TipoMensual)
    /\ MesesRestantes >= 2

\* C5: in mode 'plazo', in both systems, every row after the located row has
\* interest = balance * r and amortization = installment - interest, where
\* the installment is the one of the located row; except that the first row
\* whose amortization would reach or exceed the balance has amortization =
\* balance, installment = amortization + interest and balance 0, and is the
\* last row.
C5_ModoPlazo ==
    Localizada /\ ultima.modo = "plazo" /\ QLt(NetoPedido, CapitalAntes)
C5_FilasDePlazo ==
    C5_ModoPlazo =>
        \A pos \in Regeneradas :
            LET fila == cuadro[pos + 1]
                antes == cuadro[pos].capital_pendiente
                interes == QMul(antes, TipoMensual)
                amortizacion == QSub(FilaAntes.cuota, interes)
            IN  /\ fila.interes = interes
                /\ IF QLe(antes, amortizacion)
                   THEN /\ fila.amortizacion = antes
                        /\ fila.cuota = QAdd(antes, interes)
                        /\ fila.capital_pendiente = Cero
                        /\ pos = Len(cuadro) - 1
                   ELSE /\ fila.amortizacion = amortizacion
                        /\ fila.cuota = FilaAntes.cuota
                        /\ fila.capital_pendiente = QSub(antes, amortizacion)
C5_Testigo ==
    /\ C5_ModoPlazo
    /\ Len(cuadro) > IdxObjetivo + 2
    /\ UltimaFila.capital_pendiente = Cero
    /\ QLt(UltimaFila.cuota, FilaAntes.cuota)

\* C6: when mode 'plazo' reaches the ceiling of 1000 rows after the located
\* row and the balance is still above 0.01, the call reports a failure
\* instead of returning the schedule.
C6_TechoSinLiquidar ==
    /\ Localizada
    /\ ultima.modo = "plazo"
    /\ Len(cuadro) - IdxObjetivo - 1 = MaxFilasPlazo
    /\ QLt(Centimo, UltimaFila.capital_pendiente)
C6_FalloExplicito == C6_TechoSinLiquidar => ultima.error # ""

\* C7: generation with a term <= 0, a negative principal or a negative rate,
\* and a prepayment of a negative amount, raise a validation error instead of
\* returning a schedule.
C7_EntradaInvalida ==
    \/ /\ ultima.op = "generar"
       /\ \/ ultima.meses <= 0
          \/ QLt(ultima.principal, Cero)
          \/ QLt(ultima.tae, Cero)
    \/ FueAplicar /\ QLt(ultima.cantidad, Cero)
C7_ErrorDeValidacion == C7_EntradaInvalida => ultima.error = "ValidationError"

\* C8: a prepayment never modifies the schedule passed: when the call
\* returns, on every path, the caller's schedule has the rows and field
\* values it had before the call, and the result is a separate schedule.
C8_ArgumentoIntacto ==
    FueAplicar => (ultima.argumento = ultima.entrada /\ ultima.separado)
C8_Testigo ==
    /\ Localizada
    /\ QLt(Cero, ultima.cantidad)
    /\ cuadro # ultima.entrada
    /\ ultima.argumento = ultima.entrada

\* C9: for loan terms with rate > 0 and term n >= 1, in either system, the
\* generated schedule has n + 1 rows, the amortization portions of rows 1..n
\* add up to the principal within 0.01, and the balance of the last row is 0
\* (on the exact values of the expressions the code evaluates).
C9_Terminos ==
    /\ FueGenerar
    /\ TerminosValidos(ultima.principal, ultima.tae, ultima.meses)
    /\ QLt(Cero, ultima.tae)
C9_CuadroCompleto ==
    C9_Terminos =>
        /\ Len(cuadro) = ultima.meses + 1
        /\ QLe(QAbs(QSub(SumaRango(cuadro, "amortizacion", 1, ultima.meses),
                         ultima.principal)), Centimo)
        /\ UltimaFila.capital_pendiente = Cero
C9_Testigo == C9_Terminos /\ ultima.meses = MaxMeses /\ ultima.sistema = "frances"

\* C10: in a generated schedule without prepayments, the French system has
\* the same installment on every row 1..n; the German system has amortization
\* principal / term on every row 1..n and an installment that never increases
\* from one row to the next.
C10_Terminos ==
    FueGenerar /\ TerminosValidos(ultima.principal, ultima.tae, ultima.meses)
C10_SistemaFrancesYAleman ==
    C10_Terminos =>
        IF ultima.sistema = "frances"
        THEN \A pos \in 1..ultima.meses : cuadro[pos + 1].cuota = cuadro[2].cuota
        ELSE /\ \A pos \in 1..ultima.meses :
                    cuadro[pos + 1].amortizacion =
                        QDiv(ultima.principal, Z(ultima.meses))
             /\ \A pos \in 2..ultima.meses :
                    QLe(cuadro[pos + 1].cuota, cuadro[pos].cuota)
C10_Testigo ==
    /\ C10_Terminos
    /\ ultima.sistema = "aleman"
    /\ ultima.meses = MaxMeses
    /\ QLt(cuadro[3].cuota, cuadro[2].cuota)

\* C11: with annual rate 0 the monthly rate is 0, the generation raises no
\* division by zero, and in both systems every row 1..n of the generated
\* schedule has interest 0 and amortization principal / term.
C11_TasaCero ==
    /\ ultima.op = "generar"
    /\ TerminosValidos(ultima.principal, ultima.tae, ultima.meses)
    /\ ultima.tae = Cero
C11_DivisionLineal ==
    C11_TasaCero =>
        /\ calcular_tipo_mensual(ultima.tae) = Cero
        /\ ultima.error = ""
        /\ Len(cuadro) = ultima.meses + 1
        /\ \A pos \in 1..ultima.meses :
               /\ cuadro[pos + 1].interes = Cero
               /\ cuadro[pos + 1].amortizacion =
                      QDiv(ultima.principal, Z(ultima.meses))
C11_Testigo ==
    /\ C11_TasaCero
    /\ ultima.sistema = "frances"
    /\ ultima.meses = MaxMeses
    /\ pc = "generado"

\* C12: calcular_penalizacion returns amount * penalty_rate / 100 when the
\* current month is at most penalty_window_years * 12 (the month that closes
\* the window included) and 0 otherwise, whatever the amount, month, window
\* and rate, and whatever the total term passed.
C12_Penalizacion ==
    penalizacion # <<>> =>
        penalizacion.valor =
            IF penalizacion.mes_actual <= penalizacion.anios_penalizacion * 12
            THEN QDiv(QMul(penalizacion.cantidad,
                           penalizacion.pct_penalizacion), Cien)
            ELSE Cero
C12_Testigo ==
    /\ penalizacion # <<>>
    /\ penalizacion.mes_actual = penalizacion.anios_penalizacion * 12
    /\ penalizacion.mes_actual > penalizacion.meses_totales
    /\ QLt(Cero, penalizacion.valor)

(***************************************************************************)
(* Recurring prepayments                                                   *)
(***************************************************************************)
FueRecurrentes == ultima.op = "recurrentes"

\* The months mes_inicio, mes_inicio + periodicidad, ... up to the term
MesesPrevistos ==
    {m \in 1..ultima.meses :
        /\ m >= recurrente.mes_inicio
        /\ (m - recurrente.mes_inicio) % recurrente.periodicidad = 0}

\* Indices (from 1 on) of the rows of a schedule that stand for the month m
FilasDelMes(w, m) ==
    {i \in 1..(Len(w) - 1) :
        /\ w[i + 1].anio = ((m - 1) \div 12) + 1
        /\ w[i + 1].mes = ((m - 1) % 12) + 1}

PrimeraFilaDelMes(w, m) ==
    CHOOSE i \in FilasDelMes(w, m) : \A j \in FilasDelMes(w, m) : i <= j

\* The working schedule after the k-th pass of the loop
CuadroTras(k) ==
    IF k < Len(recurrente.traza) THEN recurrente.traza[k + 1].antes ELSE cuadro

\* C13: the recurring prepayments are taken in increasing order of month on
\* the working schedule, which starts as the generated schedule.  A target
\* without a matching row is skipped and the later targets are still
\* evaluated; a target whose row has a balance of at most 0.01 ends the whole
\* process; any other target is applied with aplicar_amortizacion_parcial and
\* the result becomes the working schedule.
C13_Recorrido ==
    FueRecurrentes =>
        LET t == recurrente.traza
        IN  /\ Len(t) <= Cardinality(MesesPrevistos)
            /\ CuadroTras(0) =
                   generar_cuadro_amortizacion(ultima.principal, ultima.tae,
                                               ultima.meses, ultima.sistema)
            /\ Len(t) < Cardinality(MesesPrevistos) =>
                   /\ Len(t) > 0
                   /\ t[Len(t)].accion = "parado"
            /\ \A k \in 1..Len(t) :
                   LET w == t[k].antes
                       m == t[k].mes_objetivo
                   IN  /\ m = recurrente.mes_inicio
                                  + (k - 1) * recurrente.periodicidad
                       /\ IF FilasDelMes(w, m) = {}
                          THEN /\ t[k].accion = "omitido"
                               /\ CuadroTras(k) = w
                          ELSE IF QLe(w[PrimeraFilaDelMes(w, m) + 1].capital_pendiente,
                                      Q(1, 100))
                          THEN /\ t[k].accion = "parado"
                               /\ k = Len(t)
                               /\ CuadroTras(k) = w
                          ELSE /\ t[k].accion = "aplicado"
                               /\ CuadroTras(k) =
                                      aplicar_amortizacion_parcial(
                                          w, ultima.cantidad,
                                          ((m - 1) \div 12) + 1,
                                          ((m - 1) % 12) + 1, ultima.tae,
                                          ultima.modo, AniosPenalizacion,
                                          PctPenalizacion, ultima.pct_comision,
                                          ultima.sistema).resultado
\* A target found paid off stops the loop with targets left
C13_Testigo ==
    /\ FueRecurrentes
    /\ pc = "recurrente"
    /\ Len(recurrente.traza) >= 2
    /\ Len(recurrente.traza) < Cardinality(MesesPrevistos)
    /\ recurrente.traza[1].accion = "aplicado"
    /\ recurrente.traza[Len(recurrente.traza)].accion = "parado"
\* A target without a row is skipped and the next one is evaluated
C13_TestigoOmitido ==
    /\ FueRecurrentes
    /\ \E k \in 1..(Len(recurrente.traza) - 1) :
           /\ recurrente.traza[k].accion = "omitido"
           /\ recurrente.traza[k + 1].accion = "omitido"
    /\ recurrente.traza[1].accion = "aplicado"

\* Rows after row 0 that carry a prepayment or a fee
FilasConAnticipada ==
    {i \in 1..(Len(cuadro) - 1) :
        \/ cuadro[i + 1].amortizacion_anticipada # Cero
        \/ cuadro[i + 1].comision # Cero}

\* C14: in the schedule returned by aplicar_amortizaciones_recurrentes a row
\* carries a non-zero prepayment or fee only if its global month is one of
\* mes_inicio, mes_inicio + periodicidad, ... up to the term, and each such
\* row was the target of exactly one application.
C14_SoloEnObjetivos ==
    FueRecurrentes =>
        /\ cuadro[1].amortizacion_anticipada = Cero
        /\ cuadro[1].comision = Cero
        /\ \A i \in FilasConAnticipada :
               LET m == (cuadro[i + 1].anio - 1) * 12 + cuadro[i + 1].mes
               IN  /\ m \in MesesPrevistos
                   /\ Cardinality({k \in 1..Len(recurrente.traza) :
                                      /\ recurrente.traza[k].accion = "aplicado"
                                      /\ recurrente.traza[k].mes_objetivo = m})
                          = 1
C14_Testigo ==
    /\ FueRecurrentes
    /\ pc = "recurrente"
    /\ recurrente.mes_inicio > 1
    /\ recurrente.periodicidad > 1
    /\ Cardinality(FilasConAnticipada) >= 2
    /\ \E i \in FilasConAnticipada : cuadro[i + 1].comision # Cero
    /\ \E i \in 1..(Len(cuadro) - 1) : i \notin FilasConAnticipada

(***************************************************************************)
(* Summary                                                                 *)
(***************************************************************************)
\* Sum of a column over the rows after row 0
SumaTrasInicio(col) == SumaRango(cuadro, col, 1, Len(cuadro) - 1)

\* C15: calcular_resumen leaves row 0 out and returns: number of installments
\* = number of rows after row 0; total paid = sum of installments + sum of
\* prepayments + sum of fees; total interest = sum of the interest portions;
\* duration in years = number of installments / 12.
C15_Resumen ==
    pc = "resumido" =>
        /\ resumen.num_cuotas = Len(cuadro) - 1
        /\ resumen.total_pagado =
               QAdd(QAdd(SumaTrasInicio("cuota"),
                         SumaTrasInicio("amortizacion_anticipada")),
                    SumaTrasInicio("comision"))
        /\ resumen.total_intereses = SumaTrasInicio("interes")
        /\ resumen.duracion_anios = Q(Len(cuadro) - 1, 12)
C15_Testigo ==
    /\ pc = "resumido"
    /\ FueRecurrentes
    /\ Len(cuadro) > 3
    /\ QLt(Cero, resumen.total_intereses)
    /\ QLt(Cero, resumen.total_comisiones)
    /\ QLt(Cero, resumen.total_amortizacion_anticipada)
    /\ QLt(QAdd(resumen.total_amortizacion_anticipada, resumen.total_comisiones),
           resumen.total_pagado)

\* Rows after row 0 that carry a non-zero prepayment
FilasNoNulas ==
    {pos \in 1..(Len(cuadro) - 1) : cuadro[pos + 1].amortizacion_anticipada # Cero}

\* The final installment as stated: of the row after the last row with a
\* non-zero prepayment, of that row itself when it is the last one, of the
\* first row when there is no such row (0 when there is no row after row 0)
CuotaFinalEnunciada ==
    IF FilasNoNulas = {}
    THEN IF Len(cuadro) > 1 THEN cuadro[2].cuota ELSE Cero
    ELSE LET pos == CHOOSE p \in FilasNoNulas : \A j \in FilasNoNulas : j <= p
         IN  IF pos + 1 < Len(cuadro) THEN cuadro[pos + 2].cuota
             ELSE cuadro[pos + 1].cuota

\* C16: the final installment of calcular_resumen is the installment of the
\* row right after the last row carrying a non-zero prepayment, or that row's
\* own installment when it is the last row of the schedule, or the first
\* row's installment when no row carries a non-zero prepayment.
C16_CuotaFinal ==
    pc = "resumido" => resumen.cuota_final = CuotaFinalEnunciada

\* The same on the schedules where no row carries a negative prepayment (the
\* code looks for amortizacion_anticipada > 0)
C16_CuotaFinalSinNegativas ==
    (/\ pc = "resumido"
     /\ \A pos \in FilasNoNulas :
            QLt(Cero, cuadro[pos + 1].amortizacion_anticipada))
        => resumen.cuota_final = CuotaFinalEnunciada
C16_Testigo ==
    /\ pc = "resumido"
    /\ FilasNoNulas # {}
    /\ \A pos \in FilasNoNulas : QLt(Cero, cuadro[pos + 1].amortizacion_anticipada)
    /\ resumen.cuota_final # resumen.cuota_inicial
    /\ resumen.cuota_final # cuadro[Len(cuadro)].cuota

(***************************************************************************)
(* Schedules of loans and prepayments in the valid ranges                  *)
(***************************************************************************)
\* The caller's schedule comes from a generation with valid terms followed
\* by prepayments with amounts in [0, principal] and fee rates in [0, 100)
DeEntradasValidas ==
    /\ ultima.op \in {"generar", "aplicar", "recurrentes"}
    /\ ultima.error = ""
    /\ TerminosValidos(ultima.principal, ultima.tae, ultima.meses)
    /\ QLe(Cero, ultima.cantidad)
    /\ QLe(ultima.cantidad, ultima.principal)
    /\ QLe(Cero, ultima.pct_comision)
    /\ QLt(ultima.pct_comision, Cien)

\* C17: with inputs in the valid ranges, every monetary field of every row
\* (installment, interest, amortization, balance, prepayment, fee) of a
\* schedule obtained from generar_cuadro_amortizacion by any sequence of
\* aplicar_amortizacion_parcial calls, or by
\* aplicar_amortizaciones_recurrentes, is non-negative, and the balance never
\* increases from one row to the next.
C17_NoNegativosYDecreciente ==
    DeEntradasValidas =>
        \A pos \in 1..Len(cuadro) :
            /\ QLe(Cero, cuadro[pos].cuota)
            /\ QLe(Cero, cuadro[pos].interes)
            /\ QLe(Cero, cuadro[pos].amortizacion)
            /\ QLe(Cero, cuadro[pos].capital_pendiente)
            /\ QLe(Cero, cuadro[pos].amortizacion_anticipada)
            /\ QLe(Cero, cuadro[pos].comision)
            /\ pos > 1 => QLe(cuadro[pos].capital_pendiente,
                              cuadro[pos - 1].capital_pendiente)
\* A recurring prepayment larger than the balance it meets, after another one
C17_Testigo ==
    /\ DeEntradasValidas
    /\ FueRecurrentes
    /\ Cardinality(FilasConAnticipada) >= 2
    /\ \E i \in FilasConAnticipada :
           /\ QLt(cuadro[i + 1].amortizacion_anticipada, ultima.cantidad)
           /\ cuadro[i + 1].comision = Cero

\* C18: for inputs in the valid ranges the last row of every schedule returned
\* by generar_cuadro_amortizacion, aplicar_amortizacion_parcial or
\* aplicar_amortizaciones_recurrentes has a balance within 0.01 of zero.  (The
\* rates of the model in the valid ranges are 0, which is inside the 0..20 %
\* of the statement, and the rate of monthly rate 1, which is above it; a
\* positive rate of at most 20 % has no monthly rate among the rationals the
\* model computes with.)
C18_SaldoFinalNulo ==
    DeEntradasValidas =>
        QLe(QAbs(cuadro[Len(cuadro)].capital_pendiente), Q(1, 100))
\* A prepayment in mode 'plazo' at rate 0 that leaves one cent: the loop adds
\* no row and the located row, with its cent, ends the schedule
C18_Testigo ==
    /\ DeEntradasValidas
    /\ FueAplicar
    /\ pc = "generado"
    /\ ultima.tae = Cero
    /\ ultima.modo = "plazo"
    /\ Len(cuadro) < Len(ultima.entrada)
    /\ cuadro[Len(cuadro)].capital_pendiente = Q(1, 100)
    /\ cuadro[Len(cuadro)].amortizacion_anticipada # Cero

(***************************************************************************)
(* The penalty                                                             *)
(***************************************************************************)
\* The schedule the last call returns when it is made with the penalty window
\* and rate of pen
CuadroCon(pen) ==
    IF FueAplicar
    THEN aplicar_amortizacion_parcial(
             ultima.entrada, ultima.cantidad, ultima.objetivo[1],
             ultima.objetivo[2], ultima.tae, ultima.modo, pen[1], pen[2],
             ultima.pct_comision, ultima.sistema).resultado
    ELSE aplicar_amortizaciones_recurrentes(
             ultima.principal, ultima.tae, ultima.meses, ultima.cantidad,
             recurrente.periodicidad, recurrente.mes_inicio, ultima.modo,
             pen[1], pen[2], ultima.pct_comision, ultima.sistema).cuadro

\* The penalty of the last call of aplicar_amortizacion_parcial under pen
PenalizacionCon(pen) ==
    IF (ultima.objetivo[1] - 1) * 12 + ultima.objetivo[2] <= pen[1] * 12
    THEN QDiv(QMul(ultima.cantidad, pen[2]), Cien)
    ELSE Cero

\* C19: the schedule returned by aplicar_amortizacion_parcial, and by
\* aplicar_amortizaciones_recurrentes, and its summary do not depend on the
\* penalty window or the penalty rate: calls that differ only in them return
\* the same schedule, and so the same summary.
C19_SinPenalizacion ==
    (FueAplicar \/ FueRecurrentes) =>
        \A pen \in Penalizaciones :
            /\ CuadroCon(pen) = cuadro
            /\ pc = "resumido" => calcular_resumen(CuadroCon(pen)) = resumen
\* A prepayment applied to a located row, summarised, whose penalty is not the
\* same under the two windows
C19_Testigo ==
    /\ FueAplicar
    /\ pc = "resumido"
    /\ Localizada
    /\ cuadro # ultima.entrada
    /\ \E p1 \in Penalizaciones, p2 \in Penalizaciones :
           PenalizacionCon(p1) # PenalizacionCon(p2)

(***************************************************************************)
(* The calendar of the rows                                                *)
(***************************************************************************)
\* C20: in every schedule produced by generar_cuadro_amortizacion, and in
\* every schedule obtained from it by aplicar_amortizacion_parcial calls
\* (either mode, any target), row 0 is (year 0, month 0) and row i >= 1 is
\* global month i: year (i - 1) // 12 + 1 and month (i - 1) % 12 + 1, so that
\* no (year, month) occurs twice.
C20_Calendario ==
    cuadro # <<>> =>
        /\ cuadro[1].anio = 0
        /\ cuadro[1].mes = 0
        /\ \A i \in 1..(Len(cuadro) - 1) :
               /\ cuadro[i + 1].anio = ((i - 1) \div 12) + 1
               /\ cuadro[i + 1].mes = ((i - 1) % 12) + 1
        /\ \A i \in 1..Len(cuadro), j \in 1..Len(cuadro) :
               (cuadro[i].anio = cuadro[j].anio /\ cuadro[i].mes = cuadro[j].mes)
                   => i = j
\* A prepayment in mode 'plazo' whose schedule runs into its third year
C20_Testigo ==
    /\ FueAplicar
    /\ ultima.modo = "plazo"
    /\ Len(cuadro) > 25
    /\ Len(ultima.entrada) <= MaxMeses + 1
    /\ cuadro[14].anio = 2
    /\ cuadro[14].mes = 1
    /\ cuadro[26].anio = 3

(***************************************************************************)
(* Conservation of the principal                                           *)
(***************************************************************************)
\* The amortization portions and the recorded prepayments of the rows after
\* row 0 add up to the principal, within a cent
Conserva(filas, principal) ==
    QLe(QAbs(QSub(principal,
                  QAdd(SumaRango(filas, "amortizacion", 1, Len(filas) - 1),
                       SumaRango(filas, "amortizacion_anticipada", 1,
                                 Len(filas) - 1)))),
        Q(1, 100))

\* C21: in every schedule obtained from a generated schedule by any sequence
\* of aplicar_amortizacion_parcial calls (any modes, any targets, the same
\* (year, month) more than once included), the principal equals the sum over
\* the rows 1..N of the amortization portions plus the sum of the recorded
\* prepayments, within rounding tolerance.
C21_PrincipalConservado ==
    (DeEntradasValidas /\ (FueGenerar \/ FueAplicar)) =>
        Conserva(cuadro, ultima.principal)

\* The same for a call that leaves the schedule as it was, or whose located
\* row carried no prepayment when the call was made: the call keeps the
\* principal of a schedule that had it
C21_ConservadoSinRepetir ==
    (/\ DeEntradasValidas
     /\ FueAplicar
     /\ Conserva(ultima.entrada, ultima.principal)
     /\ Localizada => FilaAntes.amortizacion_anticipada = Cero)
        => Conserva(cuadro, ultima.principal)
\* A second prepayment on a row that did not carry one
C21_Testigo ==
    /\ DeEntradasValidas
    /\ FueAplicar
    /\ aplicaciones = 2
    /\ Localizada
    /\ FilaAntes.amortizacion_anticipada = Cero
    /\ QLt(Cero, FilaObjetivo.amortizacion_anticipada)
    /\ \E pos \in 1..(Len(cuadro) - 1) :
           /\ pos # IdxObjetivo
           /\ QLt(Cero, cuadro[pos + 1].amortizacion_anticipada)
    /\ Conserva(cuadro, ultima.principal)

(***************************************************************************)
(* Skipped targets of the recurring prepayments                            *)
(***************************************************************************)
\* The k-th pass of the loop found no row for its target
SinFila(k) ==
    FilasDelMes(recurrente.traza[k].antes, recurrente.traza[k].mes_objetivo) = {}

\* C22: in aplicar_amortizaciones_recurrentes, once a target month has no
\* matching row in the working schedule no later target has one: nothing is
\* applied at a target that comes after a skipped one, so that the schedule
\* returned is the working schedule at the first skipped target, as if the
\* loop had stopped there.
C22_TrasOmitir ==
    FueRecurrentes =>
        \A k \in 1..Len(recurrente.traza) :
            recurrente.traza[k].accion = "omitido" =>
                /\ \A j \in k..Len(recurrente.traza) :
                       /\ SinFila(j)
                       /\ recurrente.traza[j].accion = "omitido"
                /\ cuadro = recurrente.traza[k].antes
\* A prepayment that pays the loan off, and two targets after it
C22_Testigo ==
    /\ FueRecurrentes
    /\ Len(recurrente.traza) >= 3
    /\ ~SinFila(1)
    /\ SinFila(Len(recurrente.traza) - 1)
    /\ SinFila(Len(recurrente.traza))
    /\ Len(cuadro) < ultima.meses + 1

(***************************************************************************)
(* A prepayment of amount 0                                                *)
(***************************************************************************)
\* The last call applied the amount 0 to a generated schedule of valid terms,
\* at an existing row >= 1 with a positive balance
AplicoCero ==
    /\ DeEntradasValidas
    /\ Localizada
    /\ aplicaciones = 1
    /\ ultima.cantidad = Cero
    /\ QLt(Cero, CapitalAntes)

\* The returned schedule has the rows of the schedule passed, with the same
\* installment, interest, amortization and balance on each
MismasFilas ==
    /\ Len(cuadro) = Len(ultima.entrada)
    /\ \A pos \in 1..Len(cuadro) :
           /\ cuadro[pos].cuota = ultima.entrada[pos].cuota
           /\ cuadro[pos].interes = ultima.entrada[pos].interes
           /\ cuadro[pos].amortizacion = ultima.entrada[pos].amortizacion
           /\ cuadro[pos].capital_pendiente =
                  ultima.entrada[pos].capital_pendiente

\* Mode 'plazo' on a German schedule with a positive rate: the loop holds the
\* installment of the located row, which a German schedule lowers row by row
PlazoSobreAleman ==
    /\ ultima.modo = "plazo"
    /\ ultima.sistema = "aleman"
    /\ QLt(Cero, TipoMensual)

====
